---- MODULE Spec2Model ----
(***************************************************************************)
(* Polish work-day calculator (dni_robocze.py): the holiday table, the     *)
(* workday predicate, the inclusive range counter and the signed N-day     *)
(* stepper.  The operations are pure functions of their arguments; a       *)
(* behaviour of Spec is one call: Init draws the call's arguments and one  *)
(* action per operation applies it and records what it returned or raised. *)
(* WidgetSpec is the month navigation of the calendar picker               *)
(* (dni_robocze_gui.py, CalendarWidget); WalkSpec is add_workdays run one  *)
(* loop iteration at a time.                                               *)
(*                                                                         *)
(* A date is the record [year, month, day] of a datetime.date; adding a    *)
(* timedelta goes through the proleptic Gregorian ordinal, as datetime     *)
(* does.  All inputs are centuries away from date.min / date.max, so the   *)
(* OverflowError of date arithmetic is not modelled.                       *)
(***************************************************************************)
EXTENDS Integers, Sequences, FiniteSets, TLC

VARIABLES
    call,            \* the operation invoked and its arguments
    res,             \* what the call returned or raised
    cal_year,        \* CalendarWidget._year
    cal_month,       \* CalendarWidget._month
    selected_date,   \* CalendarWidget._selected_date
    btn_prev,        \* state of CalendarWidget._btn_prev
    btn_next,        \* state of CalendarWidget._btn_next
    pc,              \* position in add_workdays
    walk_current,    \* add_workdays: current
    walk_remaining,  \* add_workdays: remaining
    walk_direction   \* add_workdays: direction

widget == <<cal_year, cal_month, selected_date, btn_prev, btn_next>>

walk == <<pc, walk_current, walk_remaining, walk_direction>>

vars == <<call, res, widget, walk>>

(***************************************************************************)
(* Bounds of the inputs.                                                   *)
(***************************************************************************)
\* years offered to get_holidays: this many on each side of the Easter table
YearMargin == 4
\* dates offered: every date of the supported years and this many days on each side
DateMargin == 12
\* set_date and today are drawn from this many years on each side of both
\* ends of the supported range
PickMargin == 1
\* stepwise walks of add_workdays start at most this many days inside the
\* supported range, counted from either end
WalkReach == 30
\* a walk of add_workdays may go this many days past the dates offered
WalkSlack == 3
\* add_workdays is called with -MaxN <= n <= MaxN
MaxN == 4
\* count_workdays is called with end = start + span, -BackSpan <= span <= MaxSpan
MaxSpan == 5
BackSpan == 1
\* the calendar cells clicked are those of these days of the month shown
\* (the 29th is a cell of February in leap years only)
ClickDays == {3, 15, 29}

(***************************************************************************)
(* datetime.date                                                           *)
(***************************************************************************)
Date(y, m, d) == [year |-> y, month |-> m, day |-> d]

IsLeap(y) == y % 4 = 0 /\ (y % 100 # 0 \/ y % 400 = 0)

DAYS_IN_MONTH == <<31, 28, 31, 30, 31, 30, 31, 31, 30, 31, 30, 31>>

DAYS_BEFORE_MONTH == <<0, 31, 59, 90, 120, 151, 181, 212, 243, 273, 304, 334>>

DaysBeforeYear(y) ==
    (y - 1) * 365 + ((y - 1) \div 4) - ((y - 1) \div 100) + ((y - 1) \div 400)

DaysBeforeMonth(y, m) ==
    DAYS_BEFORE_MONTH[m] + (IF m > 2 /\ IsLeap(y) THEN 1 ELSE 0)

\* date.toordinal(): 0001-01-01 is day 1
ToOrdinal(dt) == DaysBeforeYear(dt.year) + DaysBeforeMonth(dt.year, dt.month) + dt.day

\* date.fromordinal(): the 400/100/4/1-year cycle decomposition
FromOrdinal(o) ==
    LET n0   == o - 1
        n400 == n0 \div 146097
        r400 == n0 % 146097
        n100 == r400 \div 36524
        r100 == r400 % 36524
        n4   == r100 \div 1461
        r4   == r100 % 1461
        n1   == r4 \div 365
        n    == r4 % 365
        y    == n400 * 400 + 1 + n100 * 100 + n4 * 4 + n1
    IN  IF n1 = 4 \/ n100 = 4
        THEN Date(y - 1, 12, 31)
        ELSE LET leap == n1 = 3 /\ (n4 # 24 \/ n100 = 3)
                 m0   == (n + 50) \div 32
                 p0   == DAYS_BEFORE_MONTH[m0] + (IF m0 > 2 /\ leap THEN 1 ELSE 0)
                 m    == IF p0 > n THEN m0 - 1 ELSE m0
                 p    == IF p0 > n
                         THEN p0 - (DAYS_IN_MONTH[m] + (IF m = 2 /\ leap THEN 1 ELSE 0))
                         ELSE p0
             IN  Date(y, m, n - p + 1)

\* date + timedelta(days=k)
DateAdd(dt, k) == FromOrdinal(ToOrdinal(dt) + k)

\* date.weekday(): Monday = 0 .. Sunday = 6
Weekday(dt) == (ToOrdinal(dt) + 6) % 7

\* date ordering: by (year, month, day)
DateLE(a, b) ==
    \/ a.year < b.year
    \/ a.year = b.year /\ a.month < b.month
    \/ a.year = b.year /\ a.month = b.month /\ a.day <= b.day

DateLT(a, b) == DateLE(a, b) /\ a # b

\* a date field that holds None
None == [year |-> 0, month |-> 0, day |-> 0]

(***************************************************************************)
(* What a call produces: a returned value or a raised ValueError.  The     *)
(* three ValueErrors of the module differ by their message.                *)
(***************************************************************************)
Return(v) == [kind |-> "return", val |-> v]

Raise(e) == [kind |-> "raise", val |-> e]

Pending == [kind |-> "pending", val |-> "none"]

(***************************************************************************)
(* The Easter table and the holiday set                                    *)
(***************************************************************************)
EASTER_DATES ==
    [y \in 2020..2030 |->
        CASE y = 2020 -> Date(2020, 4, 12)
          [] y = 2021 -> Date(2021, 4, 4)
          [] y = 2022 -> Date(2022, 4, 17)
          [] y = 2023 -> Date(2023, 4, 9)
          [] y = 2024 -> Date(2024, 3, 31)
          [] y = 2025 -> Date(2025, 4, 20)
          [] y = 2026 -> Date(2026, 4, 5)
          [] y = 2027 -> Date(2027, 3, 28)
          [] y = 2028 -> Date(2028, 4, 16)
          [] y = 2029 -> Date(2029, 4, 1)
          [] y = 2030 -> Date(2030, 4, 21)]

\* sorted(EASTER_DATES.keys()): only its first and last element are ever used
SUPPORTED_YEARS == DOMAIN EASTER_DATES

MIN_YEAR == CHOOSE y \in SUPPORTED_YEARS : \A z \in SUPPORTED_YEARS : y <= z

MAX_YEAR == CHOOSE y \in SUPPORTED_YEARS : \A z \in SUPPORTED_YEARS : y >= z

\* "Rok {year} nie jest obslugiwany. Obslugiwane lata: {lo}-{hi}."
UnsupportedYearError(year) ==
    [exc |-> "ValueError", msg |-> "Rok nie jest obslugiwany",
     year |-> year, lo |-> MIN_YEAR, hi |-> MAX_YEAR]

\* "Wyszlismy poza obslugiwany zakres lat ({lo}-{hi})."
RangeExhaustedError ==
    [exc |-> "ValueError", msg |-> "Wyszlismy poza obslugiwany zakres lat",
     year |-> 0, lo |-> MIN_YEAR, hi |-> MAX_YEAR]

\* "Data poczatkowa nie moze byc pozniejsza niz data koncowa."
InvalidRangeError ==
    [exc |-> "ValueError", msg |-> "Data poczatkowa nie moze byc pozniejsza niz data koncowa",
     year |-> 0, lo |-> 0, hi |-> 0]

WIGILIA_YEAR == 2025

\* get_holidays with the Christmas Eve test written year > 2025
get_holidays_wigilia_late(year) ==
    IF year \notin DOMAIN EASTER_DATES
    THEN Raise(UnsupportedYearError(year))
    ELSE LET easter == EASTER_DATES[year]
             holidays ==
                 { Date(year, 1, 1), Date(year, 1, 6), Date(year, 5, 1),
                   Date(year, 5, 3), Date(year, 8, 15), Date(year, 11, 1),
                   Date(year, 11, 11), Date(year, 12, 25), Date(year, 12, 26),
                   easter, DateAdd(easter, 1), DateAdd(easter, 49),
                   DateAdd(easter, 60) }
         IN  Return(IF year > WIGILIA_YEAR
                    THEN holidays \cup {Date(year, 12, 24)}
                    ELSE holidays)

\* get_holidays with Easter looked up for year - 1
get_holidays_easter_of_previous_year(year) ==
    IF year \notin DOMAIN EASTER_DATES
    THEN Raise(UnsupportedYearError(year))
    ELSE LET easter == IF year - 1 \in DOMAIN EASTER_DATES
                       THEN EASTER_DATES[year - 1]
                       ELSE EASTER_DATES[year]
             holidays ==
                 { Date(year, 1, 1), Date(year, 1, 6), Date(year, 5, 1),
                   Date(year, 5, 3), Date(year, 8, 15), Date(year, 11, 1),
                   Date(year, 11, 11), Date(year, 12, 25), Date(year, 12, 26),
                   easter, DateAdd(easter, 1), DateAdd(easter, 49),
                   DateAdd(easter, 60) }
         IN  Return(IF year >= WIGILIA_YEAR
                    THEN holidays \cup {Date(year, 12, 24)}
                    ELSE holidays)

\* get_holidays with the first supported year rejected
get_holidays_rejects_first_year(year) ==
    IF year \notin DOMAIN EASTER_DATES \/ year = MIN_YEAR
    THEN Raise(UnsupportedYearError(year))
    ELSE LET easter == EASTER_DATES[year]
             holidays ==
                 { Date(year, 1, 1), Date(year, 1, 6), Date(year, 5, 1),
                   Date(year, 5, 3), Date(year, 8, 15), Date(year, 11, 1),
                   Date(year, 11, 11), Date(year, 12, 25), Date(year, 12, 26),
                   easter, DateAdd(easter, 1), DateAdd(easter, 49),
                   DateAdd(easter, 60) }
         IN  Return(IF year >= WIGILIA_YEAR
                    THEN holidays \cup {Date(year, 12, 24)}
                    ELSE holidays)

get_holidays(year) ==
    IF year \notin DOMAIN EASTER_DATES
    THEN Raise(UnsupportedYearError(year))
    ELSE LET easter == EASTER_DATES[year]
             holidays ==
                 { Date(year, 1, 1), Date(year, 1, 6), Date(year, 5, 1),
                   Date(year, 5, 3), Date(year, 8, 15), Date(year, 11, 1),
                   Date(year, 11, 11), Date(year, 12, 25), Date(year, 12, 26),
                   easter, DateAdd(easter, 1), DateAdd(easter, 49),
                   DateAdd(easter, 60) }
         IN  Return(IF year >= WIGILIA_YEAR
                    THEN holidays \cup {Date(year, 12, 24)}
                    ELSE holidays)

(***************************************************************************)
(* The holiday list with names.  The names are written without their       *)
(* Polish diacritics.                                                      *)
(***************************************************************************)
HOLIDAY_NAMES ==
    << <<1, 1, "Nowy Rok">>,
       <<1, 6, "Trzech Kroli">>,
       <<5, 1, "Swieto Pracy">>,
       <<5, 3, "Swieto Konstytucji 3 Maja">>,
       <<8, 15, "Wniebowziecie NMP">>,
       <<11, 1, "Wszystkich Swietych">>,
       <<11, 11, "Swieto Niepodleglosci">>,
       <<12, 25, "Boze Narodzenie (pierwszy dzien)">>,
       <<12, 26, "Boze Narodzenie (drugi dzien)">> >>

WIGILIA == <<12, 24, "Wigilia Bozego Narodzenia">>

\* list.sort(key=lambda x: x[0]) is stable: x goes after every entry whose
\* date is not later than its own
RECURSIVE InsertByDate(_, _)
InsertByDate(sorted, x) ==
    IF sorted = <<>>
    THEN <<x>>
    ELSE IF DateLE(sorted[Len(sorted)][1], x[1])
         THEN Append(sorted, x)
         ELSE Append(InsertByDate(SubSeq(sorted, 1, Len(sorted) - 1), x),
                     sorted[Len(sorted)])

RECURSIVE SortByDate(_)
SortByDate(result) ==
    IF result = <<>>
    THEN <<>>
    ELSE InsertByDate(SortByDate(SubSeq(result, 1, Len(result) - 1)),
                      result[Len(result)])

\* the list get_holidays_with_names builds before it sorts it
NamedHolidays(year) ==
    LET easter == EASTER_DATES[year]
        fixed  == [i \in 1..Len(HOLIDAY_NAMES) |->
                      <<Date(year, HOLIDAY_NAMES[i][1], HOLIDAY_NAMES[i][2]),
                        HOLIDAY_NAMES[i][3]>>]
        eve    == IF year >= WIGILIA_YEAR
                  THEN << <<Date(year, WIGILIA[1], WIGILIA[2]), WIGILIA[3]>> >>
                  ELSE <<>>
    IN  fixed \o eve \o
        << <<easter, "Wielkanoc">>,
           <<DateAdd(easter, 1), "Poniedzialek Wielkanocny">>,
           <<DateAdd(easter, 49), "Zielone Swiatki">>,
           <<DateAdd(easter, 60), "Boze Cialo">> >>

\* get_holidays_with_names without the final sort
get_holidays_with_names_unsorted(year) ==
    IF year \notin DOMAIN EASTER_DATES
    THEN Raise(UnsupportedYearError(year))
    ELSE Return(NamedHolidays(year))

get_holidays_with_names(year) ==
    IF year \notin DOMAIN EASTER_DATES
    THEN Raise(UnsupportedYearError(year))
    ELSE Return(SortByDate(NamedHolidays(year)))

(***************************************************************************)
(* The workday predicate                                                   *)
(***************************************************************************)
\* is_workday with the weekend test written weekday() > 5
is_workday_sunday_only(date) ==
    IF Weekday(date) > 5
    THEN Return(FALSE)
    ELSE LET holidays == get_holidays(date.year)
         IN  IF holidays.kind = "raise"
             THEN holidays
             ELSE Return(date \notin holidays.val)

\* is_workday with the ValueError of get_holidays swallowed
is_workday_swallows_error(date) ==
    IF Weekday(date) >= 5
    THEN Return(FALSE)
    ELSE LET holidays == get_holidays(date.year)
         IN  IF holidays.kind = "raise"
             THEN Return(FALSE)
             ELSE Return(date \notin holidays.val)

is_workday(date) ==
    IF Weekday(date) >= 5
    THEN Return(FALSE)
    ELSE LET holidays == get_holidays(date.year)
         IN  IF holidays.kind = "raise"
             THEN holidays
             ELSE Return(date \notin holidays.val)

(***************************************************************************)
(* The range counter                                                       *)
(***************************************************************************)
\* years_needed written range(start.year, end.year)
years_needed_without_end(start, end) == start.year..(end.year - 1)

\* years_needed holding the year of start only
years_needed_start_only(start, end) == {start.year}

\* set(range(start.year, end.year + 1))
years_needed(start, end) == start.year..end.year

\* the loop of count_workdays with the test written current < end
RECURSIVE CountLoop_exclusive_end(_, _, _, _)
CountLoop_exclusive_end(current, end, all_holidays, count) ==
    IF DateLT(current, end)
    THEN CountLoop_exclusive_end(DateAdd(current, 1), end, all_holidays,
                   IF Weekday(current) < 5 /\ current \notin all_holidays
                   THEN count + 1
                   ELSE count)
    ELSE count

\* the while loop of count_workdays, from current up to end inclusive
RECURSIVE CountLoop(_, _, _, _)
CountLoop(current, end, all_holidays, count) ==
    IF DateLE(current, end)
    THEN CountLoop(DateAdd(current, 1), end, all_holidays,
                   IF Weekday(current) < 5 /\ current \notin all_holidays
                   THEN count + 1
                   ELSE count)
    ELSE count

\* count_workdays with the holiday lookup made before the order test
count_workdays_lookup_first(start, end) ==
    LET failing == { y \in years_needed(start, end) :
                         get_holidays(y).kind = "raise" }
    IN  IF failing # {}
        THEN { get_holidays(y) : y \in failing }
        ELSE IF DateLT(end, start)
             THEN { Raise(InvalidRangeError) }
             ELSE LET all_holidays ==
                          UNION { get_holidays(y).val : y \in years_needed(start, end) }
                  IN  { Return(CountLoop(start, end, all_holidays, 0)) }

\* count_workdays testing each date with is_workday instead of building the
\* holiday sets of the years first
count_workdays_lazy_lookup(start, end) ==
    IF DateLT(end, start)
    THEN { Raise(InvalidRangeError) }
    ELSE LET days    == { FromOrdinal(o) : o \in ToOrdinal(start)..ToOrdinal(end) }
             failing == { d \in days : is_workday(d).kind = "raise" }
         IN  IF failing # {}
             THEN { is_workday(d) : d \in failing }
             ELSE { Return(Cardinality({ d \in days : is_workday(d).val })) }

\* The outcomes of count_workdays(start, end).  The years needed are visited
\* in the iteration order of a Python set, which the language leaves open:
\* when several of them are unsupported, the ValueError may name any of
\* them.  In every other case there is exactly one outcome.
count_workdays(start, end) ==
    IF DateLT(end, start)
    THEN { Raise(InvalidRangeError) }
    ELSE LET failing == { y \in years_needed(start, end) :
                              get_holidays(y).kind = "raise" }
         IN  IF failing # {}
             THEN { get_holidays(y) : y \in failing }
             ELSE LET all_holidays ==
                          UNION { get_holidays(y).val : y \in years_needed(start, end) }
                  IN  { Return(CountLoop(start, end, all_holidays, 0)) }

(***************************************************************************)
(* The N-day stepper                                                       *)
(***************************************************************************)
Abs(n) == IF n < 0 THEN -n ELSE n

\* the loop of add_workdays without the except clause: the ValueError of
\* is_workday propagates unchanged
RECURSIVE WalkLoop_propagates(_, _, _)
WalkLoop_propagates(current, remaining, direction) ==
    IF remaining > 0
    THEN LET next == DateAdd(current, direction)
             w    == is_workday(next)
         IN  IF w.kind = "raise"
             THEN w
             ELSE WalkLoop_propagates(next, IF w.val THEN remaining - 1 ELSE remaining,
                                      direction)
    ELSE Return(current)

\* the while loop of add_workdays
RECURSIVE WalkLoop(_, _, _)
WalkLoop(current, remaining, direction) ==
    IF remaining > 0
    THEN LET next == DateAdd(current, direction)
             w    == is_workday(next)
         IN  IF w.kind = "raise"
             THEN Raise(RangeExhaustedError)
             ELSE WalkLoop(next, IF w.val THEN remaining - 1 ELSE remaining, direction)
    ELSE Return(current)

\* add_workdays with direction always 1
add_workdays_forward_only(start, n) ==
    IF n = 0
    THEN Return(start)
    ELSE WalkLoop(start, Abs(n), 1)

\* add_workdays testing the start date before the first step
add_workdays_counts_start(start, n) ==
    IF n = 0
    THEN Return(start)
    ELSE WalkLoop(DateAdd(start, IF n > 0 THEN -1 ELSE 1), Abs(n),
                  IF n > 0 THEN 1 ELSE -1)

\* add_workdays that validates start with is_workday before anything else
add_workdays_checks_start(start, n) ==
    IF is_workday(start).kind = "raise"
    THEN is_workday(start)
    ELSE IF n = 0
         THEN Return(start)
         ELSE WalkLoop(start, Abs(n), IF n > 0 THEN 1 ELSE -1)

\* add_workdays with remaining = n instead of abs(n)
add_workdays_no_abs(start, n) ==
    IF n = 0
    THEN Return(start)
    ELSE WalkLoop(start, n, IF n > 0 THEN 1 ELSE -1)

add_workdays(start, n) ==
    IF n = 0
    THEN Return(start)
    ELSE WalkLoop(start, Abs(n), IF n > 0 THEN 1 ELSE -1)

(***************************************************************************)
(* Inputs                                                                  *)
(***************************************************************************)
InputYears == (MIN_YEAR - YearMargin)..(MAX_YEAR + YearMargin)

InputDates ==
    { FromOrdinal(o) : o \in (ToOrdinal(Date(MIN_YEAR, 1, 1)) - DateMargin)
                              ..(ToOrdinal(Date(MAX_YEAR, 12, 31)) + DateMargin) }

Calls ==
    [op : {"get_holidays"}, year : InputYears]
    \cup [op : {"get_holidays_with_names"}, year : InputYears]
    \cup [op : {"is_workday"}, date : InputDates]
    \cup { [op |-> "count_workdays", start |-> d, end |-> DateAdd(d, span)] :
               d \in InputDates, span \in (-BackSpan)..MaxSpan }
    \cup [op : {"add_workdays"}, start : InputDates, n : (-MaxN)..MaxN]

\* no widget built
NoWidget ==
    /\ cal_year = 0
    /\ cal_month = 0
    /\ selected_date = None
    /\ btn_prev = "none"
    /\ btn_next = "none"

\* no walk under way
NoWalk ==
    /\ pc = "idle"
    /\ walk_current = None
    /\ walk_remaining = 0
    /\ walk_direction = 0

Init ==
    /\ call \in Calls
    /\ res = Pending
    /\ NoWidget
    /\ NoWalk

GetHolidays ==
    /\ call.op = "get_holidays"
    /\ res = Pending
    /\ res' = get_holidays(call.year)
    /\ UNCHANGED <<call, widget, walk>>

GetHolidaysWithNames ==
    /\ call.op = "get_holidays_with_names"
    /\ res = Pending
    /\ res' = get_holidays_with_names(call.year)
    /\ UNCHANGED <<call, widget, walk>>

IsWorkday ==
    /\ call.op = "is_workday"
    /\ res = Pending
    /\ res' = is_workday(call.date)
    /\ UNCHANGED <<call, widget, walk>>

CountWorkdays ==
    /\ call.op = "count_workdays"
    /\ res = Pending
    /\ res' \in count_workdays(call.start, call.end)
    /\ UNCHANGED <<call, widget, walk>>

AddWorkdays ==
    /\ call.op = "add_workdays"
    /\ res = Pending
    /\ res' = add_workdays(call.start, call.n)
    /\ UNCHANGED <<call, widget, walk>>

Next ==
    \/ GetHolidays
    \/ GetHolidaysWithNames
    \/ IsWorkday
    \/ CountWorkdays
    \/ AddWorkdays

Spec == Init /\ [][Next]_vars

(***************************************************************************)
(* The calendar picker: CalendarWidget of dni_robocze_gui.py.  Only the    *)
(* month shown, the selected date and the two navigation buttons are       *)
(* modelled; today's date is used once, to place the first month shown,    *)
(* and the hover highlight changes only what is drawn.                     *)
(***************************************************************************)
WidgetYears ==
    ((MIN_YEAR - PickMargin)..(MIN_YEAR + PickMargin))
    \cup ((MAX_YEAR - PickMargin)..(MAX_YEAR + PickMargin))

WidgetDates == { Date(y, m, 15) : y \in WidgetYears, m \in {1, 6, 12} }

\* (self._year, self._month) <= (MIN_YEAR, 1)
at_min(y, m) == y < MIN_YEAR \/ (y = MIN_YEAR /\ m <= 1)

\* (self._year, self._month) >= (MAX_YEAR, 12)
at_max(y, m) == y > MAX_YEAR \/ (y = MAX_YEAR /\ m >= 12)

\* _refresh: the navigation buttons are disabled at the ends of the range
Refresh(y, m) ==
    /\ btn_prev' = IF at_min(y, m) THEN "disabled" ELSE "normal"
    /\ btn_next' = IF at_max(y, m) THEN "disabled" ELSE "normal"

\* CalendarWidget.__init__
WidgetInit ==
    /\ call = [op |-> "__init__"]
    /\ res = Pending
    /\ NoWalk
    /\ selected_date = None
    /\ \E today \in WidgetDates :
          /\ cal_year = IF today.year < MIN_YEAR THEN MIN_YEAR
                        ELSE IF today.year > MAX_YEAR THEN MAX_YEAR
                        ELSE today.year
          /\ cal_month = IF today.year < MIN_YEAR THEN 1
                         ELSE IF today.year > MAX_YEAR THEN 12
                         ELSE today.month
    /\ btn_prev = IF at_min(cal_year, cal_month) THEN "disabled" ELSE "normal"
    /\ btn_next = IF at_max(cal_year, cal_month) THEN "disabled" ELSE "normal"

PrevMonth ==
    /\ call' = [op |-> "_prev_month"]
    /\ IF cal_month = 1
       THEN IF cal_year > MIN_YEAR
            THEN cal_year' = cal_year - 1 /\ cal_month' = 12
            ELSE UNCHANGED <<cal_year, cal_month>>
       ELSE cal_month' = cal_month - 1 /\ UNCHANGED cal_year
    /\ Refresh(cal_year', cal_month')
    /\ UNCHANGED <<res, selected_date, walk>>

NextMonth ==
    /\ call' = [op |-> "_next_month"]
    /\ IF cal_month = 12
       THEN IF cal_year < MAX_YEAR
            THEN cal_year' = cal_year + 1 /\ cal_month' = 1
            ELSE UNCHANGED <<cal_year, cal_month>>
       ELSE cal_month' = cal_month + 1 /\ UNCHANGED cal_year
    /\ Refresh(cal_year', cal_month')
    /\ UNCHANGED <<res, selected_date, walk>>

\* set_date without the range test
SetDate_unchecked(dt) ==
    /\ call' = [op |-> "set_date", dt |-> dt]
    /\ selected_date' = dt
    /\ cal_year' = dt.year
    /\ cal_month' = dt.month
    /\ Refresh(cal_year', cal_month')
    /\ UNCHANGED <<res, walk>>

SetDate(dt) ==
    /\ call' = [op |-> "set_date", dt |-> dt]
    /\ IF dt.year < MIN_YEAR \/ dt.year > MAX_YEAR
       THEN UNCHANGED widget
       ELSE /\ selected_date' = dt
            /\ cal_year' = dt.year
            /\ cal_month' = dt.month
            /\ Refresh(cal_year', cal_month')
    /\ UNCHANGED <<res, walk>>

\* the day numbers of the cells _draw_calendar keeps for hit testing: the
\* non-zero entries of calendar.monthdayscalendar(year, month)
CellDays(y, m) == 1..(DAYS_IN_MONTH[m] + (IF m = 2 /\ IsLeap(y) THEN 1 ELSE 0))

\* _on_canvas_click: day = 0 is a click that hits no cell, which returns
\* before any assignment; a hit selects that day of the month shown.  The
\* cells are those of the month shown, so date(year, month, day) never raises.
OnCanvasClick(day) ==
    /\ call' = [op |-> "_on_canvas_click", day |-> day]
    /\ IF day \notin CellDays(cal_year, cal_month)
       THEN UNCHANGED widget
       ELSE /\ selected_date' = Date(cal_year, cal_month, day)
            /\ UNCHANGED <<cal_year, cal_month>>
            /\ Refresh(cal_year, cal_month)
    /\ UNCHANGED <<res, walk>>

WidgetNext ==
    \/ PrevMonth
    \/ NextMonth
    \/ \E dt \in WidgetDates : SetDate(dt)
    \/ \E day \in {0} \cup (ClickDays \cap CellDays(cal_year, cal_month)) :
          OnCanvasClick(day)

WidgetSpec == WidgetInit /\ [][WidgetNext]_vars

(***************************************************************************)
(* add_workdays, one loop iteration per step.  The walks start up to       *)
(* WalkReach days inside and DateMargin days outside either end of the     *)
(* supported range, where a walk can leave the range.  A walk is cut off   *)
(* WalkSlack days past the dates offered as start; a walk that reaches the *)
(* cut stops there without a result.                                       *)
(***************************************************************************)
WalkDates ==
    { d \in InputDates :
         \/ ToOrdinal(d) - ToOrdinal(Date(MIN_YEAR, 1, 1)) < WalkReach
         \/ ToOrdinal(Date(MAX_YEAR, 12, 31)) - ToOrdinal(d) < WalkReach }

WalkCalls == [op : {"add_workdays"}, start : WalkDates, n : (-MaxN)..MaxN]

WalkLow == ToOrdinal(Date(MIN_YEAR, 1, 1)) - DateMargin - WalkSlack

WalkHigh == ToOrdinal(Date(MAX_YEAR, 12, 31)) + DateMargin + WalkSlack

\* is_workday of every date a walk can reach, by ordinal
WorkdayAt == [o \in WalkLow..WalkHigh |-> is_workday(FromOrdinal(o))]

\* no call made yet
WalkInit ==
    /\ call = [op |-> "none"]
    /\ res = Pending
    /\ NoWidget
    /\ NoWalk

\* the caller invokes add_workdays(start, n)
WalkCall ==
    /\ pc = "idle"
    /\ call' \in WalkCalls
    /\ pc' = "entry"
    /\ UNCHANGED <<res, widget, walk_current, walk_remaining, walk_direction>>

\* lines 157-163: the n == 0 return, or the set-up of the loop
WalkEnter ==
    /\ pc = "entry"
    /\ IF call.n = 0
       THEN /\ res' = Return(call.start)
            /\ pc' = "done"
            /\ UNCHANGED <<walk_current, walk_remaining, walk_direction>>
       ELSE /\ walk_direction' = IF call.n > 0 THEN 1 ELSE -1
            /\ walk_remaining' = Abs(call.n)
            /\ walk_current' = call.start
            /\ pc' = "loop"
            /\ UNCHANGED res
    /\ UNCHANGED <<call, widget>>

\* lines 165-174: one iteration of while remaining > 0
WalkStep ==
    /\ pc = "loop"
    /\ walk_remaining > 0
    /\ LET next == DateAdd(walk_current, walk_direction)
           w    == WorkdayAt[ToOrdinal(next)]
       IN  /\ WalkLow <= ToOrdinal(next) /\ ToOrdinal(next) <= WalkHigh
           /\ walk_current' = next
           /\ IF w.kind = "raise"
              THEN /\ res' = Raise(RangeExhaustedError)
                   /\ pc' = "done"
                   /\ UNCHANGED walk_remaining
              ELSE /\ walk_remaining' = IF w.val THEN walk_remaining - 1
                                        ELSE walk_remaining
                   /\ UNCHANGED <<res, pc>>
    /\ UNCHANGED <<call, widget, walk_direction>>

\* line 176: the loop is left and current returned
WalkReturn ==
    /\ pc = "loop"
    /\ walk_remaining <= 0
    /\ res' = Return(walk_current)
    /\ pc' = "done"
    /\ UNCHANGED <<call, widget, walk_current, walk_remaining, walk_direction>>

WalkNext ==
    \/ WalkCall
    \/ WalkEnter
    \/ WalkStep
    \/ WalkReturn

\* the interpreter always executes the next statement of a running call
WalkSpec == WalkInit /\ [][WalkNext]_vars /\ WF_vars(WalkNext)

(***************************************************************************)
(* Properties                                                              *)
(***************************************************************************)
Done == res # Pending

\* the supported year range as the specification states it
InRange(y) == 2020 <= y /\ y <= 2030

\* is_workday returned True (it neither returned False nor raised)
IsWork(d) == LET w == is_workday(d) IN w.kind = "return" /\ w.val

\* the dates strictly after a and up to b inclusive
After(a, b) == { FromOrdinal(o) : o \in (ToOrdinal(a) + 1)..ToOrdinal(b) }

\* the candidates add_workdays(start, n) walked over when it returned r
Walked(start, n, r) ==
    IF n > 0 THEN After(start, r) ELSE { DateAdd(c, -1) : c \in After(r, start) }

\* C1 as stated: for every date d and every n # 0 such that add_workdays(d, n)
\* and add_workdays(add_workdays(d, n), -n) both return, the second result is d.
C1_RoundTripAnyDate ==
    (call.op = "add_workdays" /\ call.n # 0 /\ res.kind = "return")
        => LET back == add_workdays(res.val, -call.n)
           IN  back.kind = "return" => back.val = call.start

\* C1 amended: the round trip returns to d when d is itself a workday: for
\* every workday d and every n # 0 such that both calls return,
\* add_workdays(add_workdays(d, n), -n) = d.
C1_RoundTripFromWorkday ==
    (call.op = "add_workdays" /\ call.n # 0 /\ res.kind = "return"
        /\ IsWork(call.start))
        => LET back == add_workdays(res.val, -call.n)
           IN  back.kind = "return" => back.val = call.start

\* a round trip from a workday that stepped over at least one non-workday
C1_Witness ==
    /\ call.op = "add_workdays" /\ call.n < 0 /\ res.kind = "return"
    /\ IsWork(call.start)
    /\ add_workdays(res.val, -call.n) = Return(call.start)
    /\ ToOrdinal(call.start) - ToOrdinal(res.val) > -call.n

\* C2: for a date of a supported year, is_workday returns True exactly when
\* the weekday is Monday..Friday and the date is not in get_holidays(year).
C2_WorkdayIff ==
    (call.op = "is_workday" /\ Done /\ InRange(call.date.year))
        => /\ res.kind = "return"
           /\ res.val = (/\ Weekday(call.date) \in 0..4
                         /\ call.date \notin get_holidays(call.date.year).val)

\* a Monday..Friday holiday of a supported year was found not to be a workday
C2_Witness ==
    /\ call.op = "is_workday" /\ res = Return(FALSE)
    /\ InRange(call.date.year) /\ Weekday(call.date) < 5

\* C3 as stated: for a date of an unsupported year, whatever its weekday,
\* is_workday raises the unsupported-year error.
C3_RaisesOnAnyWeekday ==
    (call.op = "is_workday" /\ Done /\ ~InRange(call.date.year))
        => /\ res.kind = "raise"
           /\ res.val = UnsupportedYearError(call.date.year)

\* C3 amended: for a date of an unsupported year, is_workday raises the
\* unsupported-year error when the date is a Monday..Friday and returns
\* False when it is a Saturday or Sunday.
C3_RaisesOnWeekdaysOnly ==
    (call.op = "is_workday" /\ Done /\ ~InRange(call.date.year))
        => IF Weekday(call.date) \in 0..4
           THEN res.kind = "raise" /\ res.val = UnsupportedYearError(call.date.year)
           ELSE res.kind = "return" /\ res.val = FALSE

\* a Monday..Friday date of an unsupported year made is_workday raise
C3_Witness ==
    /\ call.op = "is_workday" /\ res.kind = "raise"
    /\ ~InRange(call.date.year) /\ Weekday(call.date) \in 0..4

\* C4: for a supported year, get_holidays returns 13 distinct dates before
\* 2025 and 14 from 2025 on.
C4_HolidayCount ==
    (call.op = "get_holidays" /\ Done /\ InRange(call.year))
        => /\ res.kind = "return"
           /\ Cardinality(res.val) = IF call.year < 2025 THEN 13 ELSE 14

\* the holiday set of a year from 2025 on, with Christmas Eve in it
C4_Witness ==
    /\ call.op = "get_holidays" /\ res.kind = "return"
    /\ call.year >= 2025 /\ Date(call.year, 12, 24) \in res.val
    /\ Cardinality(res.val) = 14

\* C5: every date get_holidays(y) returns for a supported year y, the
\* moveable ones included, lies in year y.
C5_HolidaysInYear ==
    (call.op = "get_holidays" /\ Done /\ InRange(call.year))
        => /\ res.kind = "return"
           /\ \A d \in res.val : d.year = call.year

\* a holiday set whose Easter + 60 days holiday falls in June
C5_Witness ==
    /\ call.op = "get_holidays" /\ res.kind = "return"
    /\ \E d \in res.val :
          /\ d.month = 6
          /\ ToOrdinal(d) - ToOrdinal(EASTER_DATES[call.year]) = 60

\* C6: get_holidays(y) returns a set exactly when 2020 <= y <= 2030 and
\* raises the unsupported-year error, naming y and the bounds, otherwise.
C6_SupportedIffInRange ==
    (call.op = "get_holidays" /\ Done)
        => /\ res.kind \in {"return", "raise"}
           /\ res.kind = "return" <=> InRange(call.year)
           /\ res.kind = "raise" =>
                 /\ res.val = UnsupportedYearError(call.year)
                 /\ res.val.lo = 2020 /\ res.val.hi = 2030

\* get_holidays raised for the year right after the last supported one
C6_Witness ==
    /\ call.op = "get_holidays" /\ res.kind = "raise" /\ call.year = 2031

\* C7: for start <= mid < end with every year touched supported,
\* count_workdays(start, end) =
\*     count_workdays(start, mid) + count_workdays(mid + 1 day, end).
C7_Additive ==
    (call.op = "count_workdays" /\ Done /\ DateLE(call.start, call.end)
        /\ \A y \in call.start.year..call.end.year : InRange(y))
        => /\ res.kind = "return"
           /\ \A o \in ToOrdinal(call.start)..(ToOrdinal(call.end) - 1) :
                 \A a \in count_workdays(call.start, FromOrdinal(o)),
                    b \in count_workdays(FromOrdinal(o + 1), call.end) :
                     /\ a.kind = "return" /\ b.kind = "return"
                     /\ res.val = a.val + b.val

\* a range that crosses a year boundary and has workdays on both sides of it
C7_Witness ==
    /\ call.op = "count_workdays" /\ res.kind = "return"
    /\ call.start.year < call.end.year
    /\ IsWork(call.start) /\ IsWork(call.end)
    /\ res.val >= 3

\* C8: for a date d of a supported year, count_workdays(d, d) is 1 when
\* is_workday(d) is True and 0 otherwise.
C8_SingleDay ==
    (call.op = "count_workdays" /\ Done /\ call.start = call.end
        /\ InRange(call.start.year))
        => res = Return(IF IsWork(call.start) THEN 1 ELSE 0)

\* a one-day range on a Monday..Friday holiday counted 0
C8_Witness ==
    /\ call.op = "count_workdays" /\ call.start = call.end
    /\ res = Return(0) /\ Weekday(call.start) < 5

\* C9: when add_workdays(start, n), n # 0, returns r: r is strictly after
\* start for n > 0 and strictly before it for n < 0, r is a workday, and
\* exactly |n| of the dates from start (exclusive) to r (inclusive) are
\* workdays.
C9_StepperResult ==
    (call.op = "add_workdays" /\ call.n # 0 /\ res.kind = "return")
        => /\ call.n > 0 => DateLT(call.start, res.val)
           /\ call.n < 0 => DateLT(res.val, call.start)
           /\ IsWork(res.val)
           /\ Cardinality({ c \in Walked(call.start, call.n, res.val) : IsWork(c) })
                 = Abs(call.n)

\* a backward walk from a workday that stepped over non-workdays
C9_Witness ==
    /\ call.op = "add_workdays" /\ call.n < -1 /\ res.kind = "return"
    /\ IsWork(call.start)
    /\ Cardinality(Walked(call.start, call.n, res.val)) > Abs(call.n)

\* C10: if the walk of add_workdays(start, n), n # 0, visits a date of an
\* unsupported year before |n| workdays are counted, the call raises the
\* range-exhausted error, which is not the unsupported-year error of
\* get_holidays.  The dates visited by a call that returned r are those
\* from start (exclusive) to r (inclusive), so: a call that returned has
\* visited supported years only, a call whose first candidate is in an
\* unsupported year raised, and whatever is raised is the range-exhausted
\* error.
C10_RangeExhausted ==
    (call.op = "add_workdays" /\ call.n # 0 /\ Done)
        => /\ res.kind = "return" =>
                 \A c \in Walked(call.start, call.n, res.val) : InRange(c.year)
           /\ ~InRange(DateAdd(call.start, IF call.n > 0 THEN 1 ELSE -1).year)
                 => res.kind = "raise"
           /\ res.kind = "raise" =>
                 /\ res.val = RangeExhaustedError
                 /\ \A y \in InputYears : res.val # UnsupportedYearError(y)

\* a walk that started in a supported year and left the supported range
C10_Witness ==
    /\ call.op = "add_workdays" /\ call.n > 1
    /\ InRange(call.start.year) /\ IsWork(call.start)
    /\ res = Raise(RangeExhaustedError)

\* C11: count_workdays(start, end) with start > end raises the invalid-range
\* error, whatever the years of start and end.
C11_InvalidRange ==
    (call.op = "count_workdays" /\ Done /\ DateLT(call.end, call.start))
        => res = Raise(InvalidRangeError)

\* a reversed range lying in an unsupported year raised the invalid-range error
C11_Witness ==
    /\ call.op = "count_workdays" /\ DateLT(call.end, call.start)
    /\ ~InRange(call.start.year) /\ ~InRange(call.end.year)
    /\ res = Raise(InvalidRangeError)

\* C12: for start <= end, count_workdays raises the unsupported-year error,
\* naming an unsupported year of start.year..end.year, whenever there is
\* one, also for a one-day range on a Saturday or Sunday; it returns a
\* count only when every year touched is supported.
C12_UnsupportedRange ==
    (call.op = "count_workdays" /\ Done /\ DateLE(call.start, call.end))
        => LET bad == { y \in call.start.year..call.end.year : ~InRange(y) }
           IN  /\ res.kind \in {"return", "raise"}
               /\ res.kind = "return" <=> bad = {}
               /\ res.kind = "raise" =>
                     \E y \in bad : res.val = UnsupportedYearError(y)

\* a one-day range on a Saturday or Sunday of an unsupported year raised
C12_Witness ==
    /\ call.op = "count_workdays" /\ call.start = call.end
    /\ Weekday(call.start) >= 5 /\ ~InRange(call.start.year)
    /\ res = Raise(UnsupportedYearError(call.start.year))

\* C14: add_workdays(d, 0) returns d for every date d, also a weekend day,
\* a holiday or a date of an unsupported year.
C14_ZeroSteps ==
    (call.op = "add_workdays" /\ call.n = 0 /\ Done)
        => res = Return(call.start)

\* a Monday..Friday date of an unsupported year came back unchanged
C14_Witness ==
    /\ call.op = "add_workdays" /\ call.n = 0
    /\ ~InRange(call.start.year) /\ Weekday(call.start) < 5
    /\ res = Return(call.start)

\* C16: for start <= end with every year touched supported,
\* count_workdays(start, end) is the number of dates d of [start, end] for
\* which is_workday(d) is True.
C16_CountAgreesWithPredicate ==
    (call.op = "count_workdays" /\ Done /\ DateLE(call.start, call.end)
        /\ \A y \in call.start.year..call.end.year : InRange(y))
        => res = Return(Cardinality(
                     { d \in After(DateAdd(call.start, -1), call.end) : IsWork(d) }))

\* a range over a year boundary with a holiday of the second year in it
C16_Witness ==
    /\ call.op = "count_workdays" /\ res.kind = "return"
    /\ call.start.year < call.end.year
    /\ Weekday(Date(call.end.year, 1, 1)) < 5
    /\ res.val < Cardinality({ d \in After(DateAdd(call.start, -1), call.end) :
                                  Weekday(d) < 5 })

\* C17: when d is a workday of a supported year, n # 0 and
\* add_workdays(d, n) returns r, then add_workdays(r, -n) returns too, and
\* returns d.
C17_RoundTripReturns ==
    (call.op = "add_workdays" /\ call.n # 0 /\ res.kind = "return"
        /\ InRange(call.start.year) /\ IsWork(call.start))
        => add_workdays(res.val, -call.n) = Return(call.start)

\* a forward walk from a workday over a year boundary and back
C17_Witness ==
    /\ call.op = "add_workdays" /\ call.n > 0 /\ res.kind = "return"
    /\ IsWork(call.start) /\ call.start.year < res.val.year
    /\ add_workdays(res.val, -call.n) = Return(call.start)

\* C13: for a supported year y, get_holidays_with_names(y) is a list sorted
\* ascending by date whose dates are exactly the set get_holidays(y), one
\* entry per date; for an unsupported y it raises the same error as
\* get_holidays(y).
C13_NamedListMatchesSet ==
    (call.op = "get_holidays_with_names" /\ Done)
        => IF InRange(call.year)
           THEN /\ res.kind = "return"
                /\ \A i, j \in 1..Len(res.val) :
                       i < j => DateLE(res.val[i][1], res.val[j][1])
                /\ { res.val[i][1] : i \in 1..Len(res.val) } = get_holidays(call.year).val
                /\ Len(res.val) = Cardinality(get_holidays(call.year).val)
           ELSE /\ res.kind = "raise"
                /\ res = get_holidays(call.year)

\* the sorted list of a year from 2025 on: Christmas Eve, appended tenth,
\* stands twelfth, and Easter, appended after it, stands earlier
C13_Witness ==
    /\ call.op = "get_holidays_with_names" /\ res.kind = "return"
    /\ call.year >= 2025 /\ Len(res.val) = 14
    /\ res.val[12] = <<Date(call.year, 12, 24), "Wigilia Bozego Narodzenia">>
    /\ res.val[3] = <<EASTER_DATES[call.year], "Wielkanoc">>

\* C15: the month the picker shows stays within 2020..2030 and 1..12 under
\* any sequence of previous-month, next-month and set_date actions;
\* previous-month at January 2020 and next-month at December 2030 leave the
\* month shown unchanged, and set_date with a date of an unsupported year
\* changes nothing.
C15_NavigationClamped ==
    [][ /\ InRange(cal_year) /\ cal_month \in 1..12
        /\ InRange(cal_year') /\ cal_month' \in 1..12
        /\ (call'.op = "_prev_month" /\ cal_year = 2020 /\ cal_month = 1)
              => (cal_year' = 2020 /\ cal_month' = 1)
        /\ (call'.op = "_next_month" /\ cal_year = 2030 /\ cal_month = 12)
              => (cal_year' = 2030 /\ cal_month' = 12)
        /\ (call'.op = "set_date" /\ ~InRange(call'.dt.year))
              => UNCHANGED widget ]_vars

\* set_date was called with a date past the supported range while December
\* 2030 was shown, and December 2030 is still shown
C15_Witness ==
    /\ call.op = "set_date" /\ call.dt.year > 2030
    /\ cal_year = 2030 /\ cal_month = 12 /\ btn_next = "disabled"
    /\ selected_date # None /\ selected_date.year < 2030

\* C18: every call add_workdays(start, n) terminates, returning a date or
\* raising; a call that raises does so with the range-exhausted error at a
\* Monday..Friday date of an unsupported year, and what the call ends with
\* is what add_workdays gives.
C18_WalkTerminates ==
    <>(/\ pc = "done"
       /\ res.kind \in {"return", "raise"}
       /\ res.kind = "raise" =>
             /\ res.val = RangeExhaustedError
             /\ Weekday(walk_current) < 5 /\ ~InRange(walk_current.year)
       /\ res = add_workdays(call.start, call.n))

\* a walk that started on a Friday of an unsupported year, passed the
\* weekend without an error and raised on the Monday
C18_Witness ==
    /\ pc = "done" /\ res = Raise(RangeExhaustedError)
    /\ call.n > 0 /\ ~InRange(call.start.year) /\ Weekday(call.start) = 4
    /\ Weekday(walk_current) = 0
    /\ ToOrdinal(walk_current) - ToOrdinal(call.start) = 3

====
